---- MODULE Spec2Model ----
(***************************************************************************)
(* Model of the model-selection strategies (my_model_selectors.py) and of  *)
(* the recognizer (my_recognizer.py) of AIND-Recognizer.                   *)
(*                                                                         *)
(* The hidden Markov model library is an external collaborator: a call of  *)
(* fit either yields a model or fails, a call of score either yields a     *)
(* log-likelihood or raises.  Both outcomes are chosen nondeterministically*)
(* at each call.  Scores are IEEE floats: finite values are kept as exact  *)
(* fractions, and -inf, +inf and nan are values of their own.              *)
(***************************************************************************)
EXTENDS Integers, Sequences, FiniteSets, TLC

\* ------------------------------------------------------------------ bounds
\* largest number of hidden states a caller configures
MaxN == 3
\* largest number of sequences recorded for the current word
MaxSeqs == 3
\* largest number of words of the dataset other than the current one
MaxOther == 1
\* largest number of words in the table handed to recognize
MaxClasses == 2
\* largest number of items of the test set
MaxItems == 2

\* ------------------------------------------------------------------ floats
Fin(num, den) == [t |-> "fin", n |-> num, d |-> den]
NegInf == [t |-> "ninf", n |-> 0, d |-> 1]
PosInf == [t |-> "pinf", n |-> 0, d |-> 1]
NaN == [t |-> "nan", n |-> 0, d |-> 1]
\* the outcome of a call of score that raised
Raised == [t |-> "raise", n |-> 0, d |-> 1]

\* a < b on floats: every comparison with nan is false
FLt(a, b) ==
    CASE a.t = "nan" \/ b.t = "nan" -> FALSE
      [] a.t = "ninf" -> b.t # "ninf"
      [] a.t = "pinf" -> FALSE
      [] OTHER -> \/ b.t = "pinf"
                  \/ b.t = "fin" /\ a.n * b.d < b.n * a.d

FGt(a, b) == FLt(b, a)

\* a == b on floats: nan equals nothing
FEq(a, b) ==
    /\ a.t # "nan"
    /\ b.t # "nan"
    /\ a.t = b.t
    /\ a.t = "fin" => a.n * b.d = b.n * a.d

FAdd(a, b) ==
    CASE a.t = "nan" \/ b.t = "nan" -> NaN
      [] a.t = "fin" /\ b.t = "fin" -> Fin(a.n * b.d + b.n * a.d, a.d * b.d)
      [] a.t = "fin" -> b
      [] b.t = "fin" -> a
      [] OTHER -> IF a.t = b.t THEN a ELSE NaN

FNeg(a) ==
    CASE a.t = "fin" -> Fin(-a.n, a.d)
      [] a.t = "ninf" -> PosInf
      [] a.t = "pinf" -> NegInf
      [] OTHER -> a

FSub(a, b) == FAdd(a, FNeg(b))

\* k * a for an integer k # 0
FScale(k, a) ==
    CASE a.t = "fin" -> Fin(k * a.n, a.d)
      [] a.t = "nan" -> NaN
      [] OTHER -> IF k > 0 THEN a ELSE FNeg(a)

RECURSIVE FSum(_)
FSum(s) == IF s = <<>> THEN Fin(0, 1) ELSE FAdd(Head(s), FSum(Tail(s)))

\* numpy.mean: the sum over the count; nan for an empty list (a warning, no error)
NpMean(s) ==
    IF s = <<>> THEN NaN
    ELSE LET total == FSum(s)
         IN IF total.t = "fin" THEN Fin(total.n, total.d * Len(s)) ELSE total

\* 1000 * ln(n), rounded, for n in 1..20
LnMilli(n) ==
    <<0, 693, 1099, 1386, 1609, 1792, 1946, 2079, 2197, 2303,
      2398, 2485, 2565, 2639, 2708, 2773, 2833, 2890, 2944, 2996>>[n]

RECURSIVE SumSeq(_)
SumSeq(s) == IF s = <<>> THEN 0 ELSE Head(s) + SumSeq(Tail(s))


\* ------------------------------------------------------- the hmm collaborator
\* the log-likelihoods a successful call of score returns in this model
LLValues == {Fin(-9, 1), Fin(-1, 1)}
\* what a call of score does: it returns a log-likelihood or it raises
ScoreOutcomes == LLValues \cup {Raised}
\* the same with the log-likelihood of a sequence the model holds impossible
WideScoreOutcomes == ScoreOutcomes \cup {NegInf}

\* None, the value base_model returns when the fit failed
NoneModel == [fitted |-> FALSE, n_components |-> 0, fit_X |-> <<>>, fit_lengths |-> <<>>]
\* a GaussianHMM with n states fitted on the matrix Xv with the lengths lv
FittedModel(n, Xv, lv) ==
    [fitted |-> TRUE, n_components |-> n, fit_X |-> Xv, fit_lengths |-> lv]

\* ------------------------------------------------------------------- state
VARIABLES
    \* ModelSelector fields
    selector,           \* the subclass whose select runs
    sequences,          \* self.sequences: the frame count of each sequence of this word
    others,             \* the number of words of self.words other than this_word
    min_n_components,
    max_n_components,
    n_constant,
    X,                  \* self.X: the indices of the sequences whose frames it stacks
    lengths,            \* self.lengths
    \* locals of select
    pc,
    num_states,
    models,
    hmm_model,
    cv_results,
    fold,               \* the next fold of the split, 1-based
    best_score,
    best_model,
    \* history of the run, read by the properties only
    cand_states,        \* the state count each entry of models was appended for
    fit_states,         \* the state counts base_model was called with
    failed_states,      \* the state counts for which a fit or a score failed
    scored_states,      \* the state counts for which some score was obtained
    any_fit,            \* some call of base_model returned a model
    cv_fail,            \* the fold of the state count under evaluation that failed, or 0
    cv_run,             \* the number of folds of that state count whose body was entered
    last_fold,          \* the last fold whose train data was stored in self.X, or 0
    \* recognize: arguments, locals and result
    rmodels,            \* models: one entry per word, in the dict's order
    test_size,
    rpc,
    item,               \* i, 1-based
    probabilities,
    guesses,
    returned            \* history: for each item, what score did for each word

selVars == <<selector, sequences, others, min_n_components, max_n_components,
             n_constant, X, lengths, pc, num_states, models, hmm_model,
             cv_results, fold, best_score, best_model, cand_states, fit_states,
             failed_states, scored_states, any_fit, cv_fail, cv_run, last_fold>>
recVars == <<rmodels, test_size, rpc, item, probabilities, guesses, returned>>
vars == <<selVars, recVars>>

Selectors == {"Constant", "BIC", "DIC", "CV"}

\* n_constant=3 of ModelSelector.__init__
DefaultNConstant == 3

\* the frame count of the i-th sequence recorded for a word
FrameCount(i) == ((i - 1) % 2) + 1

\* ------------------------------------------------------- ModelSelector
\* ModelSelector.__init__: the state after construction
SelectorInit ==
    /\ selector \in Selectors
    /\ \E nseq \in 1..MaxSeqs :
          /\ sequences = [i \in 1..nseq |-> FrameCount(i)]
          /\ X = [i \in 1..nseq |-> i]
          /\ lengths = [i \in 1..nseq |-> FrameCount(i)]
    \* a field the selector never reads keeps one value
    /\ others \in IF selector = "DIC" THEN 0..MaxOther ELSE {1}
    /\ min_n_components \in 1..MaxN
    /\ max_n_components \in min_n_components..MaxN
    /\ n_constant \in IF selector = "Constant" THEN 1..MaxN ELSE {DefaultNConstant}
    /\ pc = "idle"
    /\ num_states = 0
    /\ models = <<>>
    /\ hmm_model = NoneModel
    /\ cv_results = <<>>
    /\ fold = 0
    /\ best_score = NaN
    /\ best_model = NoneModel
    /\ cand_states = <<>>
    /\ fit_states = {}
    /\ failed_states = {}
    /\ scored_states = {}
    /\ any_fit = FALSE
    /\ cv_fail = 0
    /\ cv_run = 0
    /\ last_fold = 0

\* base_model: a model fitted on (self.X, self.lengths), or None when the fit raised
base_model(n, Xv, lv, fit_ok) == IF fit_ok THEN FittedModel(n, Xv, lv) ELSE NoneModel

\* model.score(...): raises on None (no attribute score), else what the library does
ModelScore(model, outcome) == IF model.fitted THEN outcome ELSE Raised

\* the history of one evaluation of the state count n
History(n, fit_ok, failed, scored) ==
    /\ cand_states' = IF Len(models') > Len(models) THEN Append(cand_states, n)
                      ELSE cand_states
    /\ fit_states' = fit_states \cup {n}
    /\ failed_states' = IF failed THEN failed_states \cup {n} ELSE failed_states
    /\ scored_states' = IF scored THEN scored_states \cup {n} ELSE scored_states
    /\ any_fit' = (any_fit \/ fit_ok)

\* ------------------------------------------------------- min and max
\* the builtins min and max with a key: the scan keeps the best item so far and
\* replaces it only by an item whose key compares strictly better
\* (a scan that also replaces on an equal key, so that the last occurrence wins)
ReplacesOnEqual(direction, candidate, best) ==
    IF direction = "min" THEN FLt(candidate, best) \/ FEq(candidate, best)
    ELSE FGt(candidate, best) \/ FEq(candidate, best)

Replaces(direction, candidate, best) ==
    IF direction = "min" THEN FLt(candidate, best) ELSE FGt(candidate, best)

RECURSIVE Scan(_, _, _, _)
Scan(direction, s, best, i) ==
    IF i > Len(s) THEN best
    ELSE Scan(direction, s,
              IF Replaces(direction, s[i][1], best[1]) THEN s[i] ELSE best, i + 1)

PyMin(s) == Scan("min", s, s[1], 2)
PyMax(s) == Scan("max", s, s[1], 2)

\* "this is a minimization problem" for BIC, "a maximization problem" for DIC, CV
Direction(sel) == IF sel = "BIC" THEN "min" ELSE "max"

\* the statements after the for statement: min or max over models, and return;
\* min and max raise ValueError on an empty list
ReduceAndReturn(ms) ==
    IF ms = <<>>
    THEN /\ pc' = "raised"
         /\ UNCHANGED <<best_score, best_model>>
    ELSE LET best == IF Direction(selector) = "min" THEN PyMin(ms) ELSE PyMax(ms)
         IN /\ best_score' = best[1]
            /\ best_model' = best[2]
            /\ pc' = "done"

\* the for statement over range(min_n_components, max_n_components + 1) takes
\* its next value, or is exhausted and select goes on to the end
AfterIteration(n, ms) ==
    IF n + 1 <= max_n_components
    THEN /\ num_states' = n + 1
         /\ pc' = "loop"
         /\ UNCHANGED <<best_score, best_model>>
    ELSE /\ num_states' = n
         /\ ReduceAndReturn(ms)

\* ------------------------------------------------------- the selectors
\* SelectorConstant.select
SelectConstant ==
    /\ pc = "idle"
    /\ selector = "Constant"
    /\ \E fit_ok \in BOOLEAN :
          /\ best_model' = base_model(n_constant, X, lengths, fit_ok)
          /\ models' = models
          /\ History(n_constant, fit_ok, ~fit_ok, FALSE)
    /\ pc' = "done"
    /\ UNCHANGED <<selector, sequences, others, min_n_components, max_n_components,
                   n_constant, X, lengths, num_states, hmm_model,
                   cv_results, fold, best_score, cv_fail, cv_run, last_fold>>
    /\ UNCHANGED recVars

\* select of SelectorBIC, SelectorDIC, SelectorCV up to the for statement
SelectStart ==
    /\ pc = "idle"
    /\ selector # "Constant"
    /\ models' = <<>>
    /\ num_states' = min_n_components
    /\ pc' = "loop"
    /\ UNCHANGED <<selector, sequences, others, min_n_components, max_n_components,
                   n_constant, X, lengths, hmm_model, cv_results, fold,
                   best_score, best_model, cand_states, fit_states, failed_states,
                   scored_states, any_fit, cv_fail, cv_run, last_fold>>
    /\ UNCHANGED recVars

\* free_params and BIC of SelectorBIC.select, with ln(n) in thousandths
BICScore(LL, n_states, n) ==
    LET free_params == (n_states * n_states) + (2 * n_states * n) - 1
    IN FAdd(FScale(-2, LL), Fin(free_params * LnMilli(n), 1000))

\* (an except clause that skips the state count instead of recording it)
AppendFailedSkipped(ms, model) == ms

\* the except clause of an iteration: models.append((float("-inf"), hmm_model))
AppendFailed(ms, model) == Append(ms, <<NegInf, model>>)

\* what the calls of score of an iteration can do: nothing but raise on None
Outcomes(fit_ok, S) == IF fit_ok THEN S ELSE {Raised}

\* one iteration of the for statement of SelectorBIC.select, and the end of
\* select after the last one
BICIteration ==
    /\ pc = "loop"
    /\ selector = "BIC"
    /\ \E fit_ok \in BOOLEAN :
        \E outcome \in Outcomes(fit_ok, WideScoreOutcomes) :
          LET model == base_model(num_states, X, lengths, fit_ok)
              LL == ModelScore(model, outcome)
              n == SumSeq(lengths)
          IN /\ hmm_model' = model
             /\ models' = IF LL = Raised THEN AppendFailed(models, model)
                          ELSE Append(models, <<BICScore(LL, num_states, n), model>>)
             /\ History(num_states, fit_ok, LL = Raised, LL # Raised)
    /\ AfterIteration(num_states, models')
    /\ UNCHANGED <<selector, sequences, others, min_n_components, max_n_components,
                   n_constant, X, lengths, cv_results, fold, cv_fail, cv_run,
                   last_fold>>
    /\ UNCHANGED recVars

\* one iteration of the for statement of SelectorDIC.select, and the end of
\* select after the last one
DICIteration ==
    /\ pc = "loop"
    /\ selector = "DIC"
    /\ \E fit_ok \in BOOLEAN :
        \E outcome \in Outcomes(fit_ok, WideScoreOutcomes),
           adv \in [1..others -> Outcomes(fit_ok, WideScoreOutcomes)] :
          LET model == base_model(num_states, X, lengths, fit_ok)
              LL == ModelScore(model, outcome)
              adv_scores == [w \in 1..others |-> ModelScore(model, adv[w])]
              raised == LL = Raised \/ \E w \in 1..others : adv_scores[w] = Raised
          IN /\ hmm_model' = model
             /\ models' = IF raised THEN AppendFailed(models, model)
                          ELSE Append(models, <<FSub(LL, NpMean(adv_scores)), model>>)
             /\ History(num_states, fit_ok, raised, ~raised)
    /\ AfterIteration(num_states, models')
    /\ UNCHANGED <<selector, sequences, others, min_n_components, max_n_components,
                   n_constant, X, lengths, cv_results, fold, cv_fail, cv_run,
                   last_fold>>
    /\ UNCHANGED recVars

\* ------------------------------------------------------- SelectorCV
\* n_splits of the KFold: min(3, len(self.sequences))
NSplits(nseq) == IF nseq < 3 THEN nseq ELSE 3

\* KFold(shuffle=False).split: fold f tests a contiguous block of indices; the
\* first nseq % k blocks hold one index more than the others
FoldSize(nseq, k, f) == (nseq \div k) + (IF f <= nseq % k THEN 1 ELSE 0)
FoldStart(nseq, k, f) ==
    1 + (f - 1) * (nseq \div k) + (IF f - 1 <= nseq % k THEN f - 1 ELSE nseq % k)
TestIdx(nseq, k, f) ==
    [j \in 1..FoldSize(nseq, k, f) |-> FoldStart(nseq, k, f) + j - 1]
InTest(nseq, k, f, i) ==
    /\ FoldStart(nseq, k, f) <= i
    /\ i < FoldStart(nseq, k, f) + FoldSize(nseq, k, f)
TrainIdx(nseq, k, f) ==
    SelectSeq([i \in 1..nseq |-> i], LAMBDA i : ~InTest(nseq, k, f, i))

\* combine_sequences: the stacked frames of the indexed sequences (named by their
\* indices) and the frame count of each; on the indices of a split it cannot fail
CombineSequences(idx, seqs) ==
    [X |-> idx, lengths |-> [j \in 1..Len(idx) |-> seqs[idx[j]]]]

\* if len(cv_results) > 0: models.append((np.mean(cv_results), hmm_model))
AppendScored(ms, results, model) ==
    IF Len(results) > 0 THEN Append(ms, <<NpMean(results), model>>) ELSE ms

\* the end of an iteration of the for statement of SelectorCV.select
CVEndIteration(results, model) ==
    /\ models' = AppendScored(models, results, model)
    /\ cand_states' = IF Len(models') > Len(models)
                      THEN Append(cand_states, num_states) ELSE cand_states
    /\ AfterIteration(num_states, models')

\* an iteration of the for statement of SelectorCV.select, len(self.sequences) == 1
CVSingle ==
    /\ pc = "loop"
    /\ selector = "CV"
    /\ Len(sequences) = 1
    /\ \E fit_ok \in BOOLEAN :
        \E outcome \in Outcomes(fit_ok, ScoreOutcomes) :
          LET model == base_model(num_states, X, lengths, fit_ok)
              LL == ModelScore(model, outcome)
              results == <<IF LL = Raised THEN NegInf ELSE LL>>
          IN /\ hmm_model' = model
             /\ cv_results' = results
             /\ fit_states' = fit_states \cup {num_states}
             /\ failed_states' = IF LL = Raised THEN failed_states \cup {num_states}
                                 ELSE failed_states
             /\ scored_states' = scored_states \cup {num_states}
             /\ any_fit' = (any_fit \/ fit_ok)
             /\ CVEndIteration(results, model)
    /\ UNCHANGED <<selector, sequences, others, min_n_components, max_n_components,
                   n_constant, X, lengths, fold, cv_fail, cv_run, last_fold>>
    /\ UNCHANGED recVars

\* the start of an iteration with 2 sequences or more: KFold(...) and split(...);
\* when the library refuses the arguments the iteration ends with no score
CVSplit ==
    /\ pc = "loop"
    /\ selector = "CV"
    /\ Len(sequences) # 1
    /\ cv_results' = <<>>
    /\ cv_fail' = 0
    /\ cv_run' = 0
    /\ \E split_ok \in BOOLEAN :
          IF split_ok
          THEN /\ fold' = 1
               /\ pc' = "fold"
               /\ UNCHANGED <<num_states, models, cand_states, best_score,
                              best_model>>
          ELSE /\ fold' = 0
               /\ CVEndIteration(<<>>, hmm_model)
    /\ UNCHANGED <<selector, sequences, others, min_n_components, max_n_components,
                   n_constant, X, lengths, hmm_model, fit_states, failed_states,
                   scored_states, any_fit, last_fold>>
    /\ UNCHANGED recVars

\* whether the fold loop goes on after the body ran for fold f of k: a statement
\* that raised leaves the loop, for the try statement encloses the whole loop
LoopGoesOn(f, k, raised) == ~raised /\ f < k

\* the body of the fold loop, once, and the end of the iteration after the loop
CVFold ==
    /\ pc = "fold"
    /\ LET nseq == Len(sequences)
           k == NSplits(nseq)
           train == CombineSequences(TrainIdx(nseq, k, fold), sequences)
           test == CombineSequences(TestIdx(nseq, k, fold), sequences)
       IN \E fit_ok \in BOOLEAN :
            \E outcome \in Outcomes(fit_ok, ScoreOutcomes) :
             LET model == base_model(num_states, train.X, train.lengths, fit_ok)
                 \* a test part is never empty: n_splits <= len(self.sequences)
                 LL == IF Len(test.X) > 0 THEN ModelScore(model, outcome) ELSE Raised
                 results == IF LL = Raised THEN cv_results ELSE Append(cv_results, LL)
             IN /\ cv_run' = cv_run + 1
                /\ X' = train.X
                /\ lengths' = train.lengths
                /\ last_fold' = fold
                /\ fit_states' = fit_states \cup {num_states}
                /\ any_fit' = (any_fit \/ fit_ok)
                /\ hmm_model' = model
                /\ cv_results' = results
                /\ cv_fail' = IF LL = Raised /\ cv_fail = 0 THEN fold ELSE cv_fail
                /\ failed_states' = IF LL = Raised THEN failed_states \cup {num_states}
                                    ELSE failed_states
                /\ scored_states' = IF LL = Raised THEN scored_states
                                    ELSE scored_states \cup {num_states}
                /\ IF LoopGoesOn(fold, k, LL = Raised)
                   THEN /\ fold' = fold + 1
                        /\ pc' = "fold"
                        /\ UNCHANGED <<num_states, models, cand_states, best_score,
                                       best_model>>
                   ELSE /\ fold' = fold
                        /\ CVEndIteration(results, model)
    /\ UNCHANGED <<selector, sequences, others, min_n_components, max_n_components,
                   n_constant>>
    /\ UNCHANGED recVars

\* ------------------------------------------------------- recognize
\* the models a table holds: None (a selector returned it), a model fitted on a
\* word's full collection, a model fitted on the train part of a fold
TableModels ==
    {NoneModel, FittedModel(2, <<1, 2>>, <<1, 2>>), FittedModel(3, <<2>>, <<2>>)}

\* recognize is called: the state at the for statement over the test items
RecognizeInit ==
    /\ \E M \in 0..MaxClasses : rmodels \in [1..M -> TableModels]
    /\ test_size \in 0..MaxItems
    /\ rpc = "loop"
    /\ item = 1
    /\ probabilities = <<>>
    /\ guesses = <<>>
    /\ returned = <<>>

\* (an except clause that leaves the word out of the mapping)
RecordFailureOmitted(LL, word) == LL

\* (an except clause that loses the scores recorded before the failure)
RecordFailureReset(LL, word) == <<<<word, NegInf>>>>

\* the except clause of recognize: LL[word] = float("-inf")
RecordFailure(LL, word) == Append(LL, <<word, NegInf>>)

\* the for statement over models.items(): LL as the list of its (word, score)
\* entries in insertion order
RECURSIVE ScoreWords(_, _, _, _)
ScoreWords(ms, outcomes, word, LL) ==
    IF word > Len(ms) THEN LL
    ELSE LET score == ModelScore(ms[word], outcomes[word])
         IN ScoreWords(ms, outcomes, word + 1,
                       IF score = Raised THEN RecordFailure(LL, word)
                       ELSE Append(LL, <<word, score>>))

\* max(LL, key=LL.get): the first key, in the dict's order, of the greatest value
RECURSIVE MaxKeyScan(_, _, _)
MaxKeyScan(LL, best, i) ==
    IF i > Len(LL) THEN best[1]
    ELSE MaxKeyScan(LL, IF FGt(LL[i][2], best[2]) THEN LL[i] ELSE best, i + 1)

\* (the first key of the least value: min in the place of max)
RECURSIVE MinKeyScan(_, _, _)
MinKeyScan(LL, best, i) ==
    IF i > Len(LL) THEN best[1]
    ELSE MinKeyScan(LL, IF FLt(LL[i][2], best[2]) THEN LL[i] ELSE best, i + 1)

PyMinKey(LL) == MinKeyScan(LL, LL[1], 2)

PyMaxKey(LL) == MaxKeyScan(LL, LL[1], 2)

\* the body of the for statement over the test items, once; max raises
\* ValueError when the table, and so LL, is empty
RecognizeItem ==
    /\ rpc = "loop"
    /\ item <= test_size
    /\ \E outcomes \in [1..Len(rmodels) -> ScoreOutcomes] :
          LET LL == ScoreWords(rmodels, outcomes, 1, <<>>)
          IN /\ returned' = Append(returned,
                    [w \in 1..Len(rmodels) |-> ModelScore(rmodels[w], outcomes[w])])
             /\ probabilities' = Append(probabilities, LL)
             /\ IF LL = <<>>
                THEN /\ rpc' = "raised"
                     /\ UNCHANGED <<guesses, item>>
                ELSE /\ guesses' = Append(guesses, PyMaxKey(LL))
                     /\ item' = item + 1
                     /\ rpc' = rpc
    /\ UNCHANGED <<rmodels, test_size>>
    /\ UNCHANGED selVars

\* return probabilities, guesses
RecognizeReturn ==
    /\ rpc = "loop"
    /\ item > test_size
    /\ rpc' = "done"
    /\ UNCHANGED <<rmodels, test_size, item, probabilities, guesses, returned>>
    /\ UNCHANGED selVars

\* ------------------------------------------------------- specifications
\* no selector is running
SelectorParked ==
    /\ selector = "Constant"
    /\ sequences = <<1>>
    /\ X = <<1>>
    /\ lengths = <<1>>
    /\ others = 0
    /\ min_n_components = 2
    /\ max_n_components = 2
    /\ n_constant = 2
    /\ pc = "parked"
    /\ num_states = 0
    /\ models = <<>>
    /\ hmm_model = NoneModel
    /\ cv_results = <<>>
    /\ fold = 0
    /\ best_score = NaN
    /\ best_model = NoneModel
    /\ cand_states = <<>>
    /\ fit_states = {}
    /\ failed_states = {}
    /\ scored_states = {}
    /\ any_fit = FALSE
    /\ cv_fail = 0
    /\ cv_run = 0
    /\ last_fold = 0

\* recognize is not running
RecognizeParked ==
    /\ rmodels = <<>>
    /\ test_size = 0
    /\ rpc = "parked"
    /\ item = 1
    /\ probabilities = <<>>
    /\ guesses = <<>>
    /\ returned = <<>>

InitSelect == SelectorInit /\ RecognizeParked
NextSelect ==
    \/ SelectConstant
    \/ SelectStart
    \/ BICIteration
    \/ DICIteration
    \/ CVSingle
    \/ CVSplit
    \/ CVFold
\* one call of select on a freshly constructed selector
SpecSelect == InitSelect /\ [][NextSelect]_vars

InitRecognize == RecognizeInit /\ SelectorParked
NextRecognize ==
    \/ RecognizeItem
    \/ RecognizeReturn
\* one call of recognize
SpecRecognize == InitRecognize /\ [][NextRecognize]_vars


\* ------------------------------------------------------- properties
Returned == pc = "done"
LoopOver == pc \in {"done", "raised"}
RangeSize == max_n_components - min_n_components + 1
Comparing == selector \in {"BIC", "DIC", "CV"}

\* a is strictly better than b for the selector: smaller for BIC, greater for
\* DIC and CV
StrictlyBetter(sel, a, b) == IF sel = "BIC" THEN FLt(a, b) ELSE FGt(a, b)

\* C1: when select of SelectorBIC, SelectorDIC or SelectorCV returns from a
\* non-empty candidate list, what it returns is the score and the model of a
\* candidate than which no candidate has a strictly better score (smaller for
\* BIC, greater for DIC and CV), and no candidate evaluated before it has an
\* equal score: among equal extremal scores the first evaluated wins.
C1_ReturnsFirstExtremal ==
    (Returned /\ Comparing /\ Len(models) > 0) =>
        \E i \in 1..Len(models) :
            /\ best_score = models[i][1]
            /\ best_model = models[i][2]
            /\ \A j \in 1..Len(models) :
                  ~StrictlyBetter(selector, models[j][1], models[i][1])
            /\ \A j \in 1..(i - 1) : ~FEq(models[j][1], models[i][1])

\* C1 witness: SelectorBIC returned, out of three candidates, the second one,
\* whose BIC is strictly the smallest
C1_Witness ==
    /\ Returned
    /\ selector = "BIC"
    /\ Len(models) = 3
    /\ best_model = models[2][2]
    /\ best_model.fitted
    /\ FLt(models[2][1], models[1][1])
    /\ FLt(models[2][1], models[3][1])

\* the entries of models of the state counts that were fitted and scored
Succeeded(i) == cand_states[i] \notin failed_states

\* C2: in SelectorBIC.select every failed state count is recorded with the
\* score -inf, and whenever some state count was fitted and scored with a finite
\* BIC, the model returned is that of a state count that did not fail.
C2_BICReturnsSuccessful ==
    (Returned /\ selector = "BIC") =>
        /\ \A i \in 1..Len(models) : ~Succeeded(i) => models[i][1] = NegInf
        /\ (\E i \in 1..Len(models) : Succeeded(i) /\ models[i][1].t = "fin") =>
              \E i \in 1..Len(models) :
                  /\ Succeeded(i)
                  /\ best_score = models[i][1]
                  /\ best_model = models[i][2]

\* C3: when every fit of the run failed, select of SelectorBIC, SelectorDIC and
\* SelectorCV does not return: it never hands back the absent model as the
\* selected one.
C3_NoPlaceholder == ~(Returned /\ Comparing /\ ~any_fit)

\* C7: once the loop of select is over, the candidate list of SelectorBIC and
\* SelectorDIC holds one entry for each state count of the range, in ascending
\* order; SelectorConstant has fitted n_constant and nothing else; the list of
\* SelectorCV holds entries for ascending state counts of the range, and a
\* state count without entry is one for which no fold gave a score.
C7_CandidateCount ==
    LoopOver =>
        /\ Len(cand_states) = Len(models)
        /\ selector \in {"BIC", "DIC"} =>
              /\ Len(models) = RangeSize
              /\ \A i \in 1..Len(models) :
                    /\ cand_states[i] = min_n_components + i - 1
                    /\ models[i][2].fitted =>
                          models[i][2].n_components = cand_states[i]
        /\ selector = "Constant" =>
              /\ fit_states = {n_constant}
              /\ models = <<>>
        /\ selector = "CV" =>
              /\ Len(models) <= RangeSize
              /\ \A i \in 1..Len(models) :
                    /\ cand_states[i] \in min_n_components..max_n_components
                    /\ i > 1 => cand_states[i - 1] < cand_states[i]
              /\ \A n \in min_n_components..max_n_components :
                    (\A i \in 1..Len(models) : cand_states[i] # n) =>
                        n \notin scored_states

\* C7 witness: SelectorBIC finished a range of three state counts of which the
\* second failed, with three entries
C7_Witness ==
    /\ LoopOver
    /\ selector = "BIC"
    /\ RangeSize = 3
    /\ Len(models) = 3
    /\ failed_states = {min_n_components + 1}

\* C8: in SelectorDIC.select on a dataset with no other word, every candidate
\* is recorded with the score -inf.
C8_SingleClassSentinel ==
    (selector = "DIC" /\ others = 0) =>
        \A i \in 1..Len(models) : models[i][1] = NegInf

\* C9: in SelectorCV.select with 2 sequences or more, when the body of the
\* fold loop failed for a fold, the folds after it were still run: the
\* iteration ends with all the folds of the split entered.
C9_FoldFailureIsLocal ==
    (selector = "CV" /\ Len(sequences) >= 2 /\ pc # "fold" /\ cv_fail # 0) =>
        cv_run = NSplits(Len(sequences))

\* the train indices of fold f for this word
TrainOf(f) == TrainIdx(Len(sequences), NSplits(Len(sequences)), f)
FullX == [i \in 1..Len(sequences) |-> i]

\* C10: when SelectorCV.select returns for a word of 2 sequences or more, X and
\* lengths are the train data of the last fold processed, not the full
\* collection, and the model returned was fitted on the train data of a fold.
C10_CVLeavesFoldData ==
    (Returned /\ selector = "CV" /\ Len(sequences) >= 2) =>
        /\ last_fold \in 1..NSplits(Len(sequences))
        /\ X = TrainOf(last_fold)
        /\ lengths = CombineSequences(TrainOf(last_fold), sequences).lengths
        /\ X # FullX
        /\ lengths # sequences
        /\ best_model.fitted
        /\ \E f \in 1..NSplits(Len(sequences)) : best_model.fit_X = TrainOf(f)
        /\ best_model.fit_X # FullX

\* the scores the mapping LL records for the word w
Recorded(LL, w) == {LL[k][2] : k \in {k \in 1..Len(LL) : LL[k][1] = w}}
Keys(LL) == {LL[k][1] : k \in 1..Len(LL)}
Words == 1..Len(rmodels)

\* what recognize hands back has the shape the docstring gives
RecognizeShape ==
    /\ rpc = "done"
    /\ Len(probabilities) = test_size
    /\ Len(guesses) = test_size
    /\ \A i \in 1..test_size :
          /\ Len(probabilities[i]) = Len(rmodels)
          /\ Keys(probabilities[i]) = Words
          /\ \A w \in Words :
                Recorded(probabilities[i], w) =
                    {IF returned[i][w] = Raised THEN NegInf ELSE returned[i][w]}
          /\ guesses[i] \in Keys(probabilities[i])

\* C4 as stated: for every table and every test set, recognize ends by
\* returning T mappings in item order, each with one entry per word of the
\* table, and T guesses, each a key of its mapping.
C4_ShapeForEveryTable == rpc # "loop" => RecognizeShape

\* C4 amended: the same for every table of at least one word, and for every
\* table when the test set is empty; on an empty table and a test set that is
\* not empty recognize raises at the first item.
C4_ShapeForNonEmptyTable ==
    /\ (rpc # "loop" /\ (Len(rmodels) >= 1 \/ test_size = 0)) => RecognizeShape
    /\ (Len(rmodels) = 0 /\ test_size >= 1 /\ rpc # "loop") =>
          (rpc = "raised" /\ guesses = <<>>)

\* C4 witness: recognize returned for two words and two items
C4_Witness ==
    /\ rpc = "done"
    /\ Len(rmodels) = 2
    /\ test_size = 2
    /\ Len(probabilities) = 2
    /\ \E w \in Words : returned[2][w] = Raised

\* a call of score raised during the run
SomeFailure ==
    \E i \in 1..Len(returned) : \E w \in Words : returned[i][w] = Raised

\* C5: once a call of score has raised, recognize does not raise, the mapping
\* of every item processed records -inf for each (item, word) whose score
\* raised, and for every other (item, word) what score returned for it.
C5_FailureAbsorbed ==
    SomeFailure =>
        /\ rpc # "raised"
        /\ Len(probabilities) = Len(returned)
        /\ \A i \in 1..Len(probabilities) : \A w \in Words :
              Recorded(probabilities[i], w) =
                  {IF returned[i][w] = Raised THEN NegInf ELSE returned[i][w]}

\* C5 witness: recognize returned, the score of the first word raised for the
\* first item only, and every other score is finite
C5_Witness ==
    /\ rpc = "done"
    /\ Len(rmodels) = 2
    /\ test_size = 2
    /\ returned[1][1] = Raised
    /\ returned[1][2].t = "fin"
    /\ returned[2][1].t = "fin"
    /\ returned[2][2].t = "fin"
    /\ Recorded(probabilities[1], 2) = {returned[1][2]}

\* the score the mapping LL records for its k-th entry beats all the others
StrictlyHighest(LL, k) ==
    \A k2 \in 1..Len(LL) : k2 # k => FGt(LL[k][2], LL[k2][2])

\* C6: the guess of every item is a key of its mapping, no word of the mapping
\* has a score strictly greater than the score of the guess, and a word whose
\* score is strictly greater than all the others is the guess.
C6_GuessIsArgmax ==
    \A i \in 1..Len(guesses) :
        LET LL == probabilities[i]
        IN /\ guesses[i] \in Keys(LL)
           /\ \A k \in 1..Len(LL) : \A g \in Recorded(LL, guesses[i]) :
                 ~FGt(LL[k][2], g)
           /\ \A k \in 1..Len(LL) : StrictlyHighest(LL, k) => guesses[i] = LL[k][1]

\* C6 witness: the second word, scored by a model fitted on a fold, has the
\* strictly highest score of an item and is its guess
C6_Witness ==
    /\ Len(guesses) >= 1
    /\ Len(rmodels) = 2
    /\ rmodels[2] = FittedModel(3, <<2>>, <<2>>)
    /\ StrictlyHighest(probabilities[1], 2)
    /\ probabilities[1][1][2].t = "fin"
    /\ guesses[1] = 2

====
